---- MODULE Spec2Model ----
(***************************************************************************)
(* Constrained multibody dynamics solver: Body / Joint / Dynamics_Sys.     *)
(*                                                                         *)
(* Numbers.  The program computes in double; the model computes in exact   *)
(* rationals <<n, d>> (d > 0, lowest terms), so every linear-algebra       *)
(* identity of the code is an identity of the model.  Angles are measured  *)
(* in quarter turns, which makes sin and cos exact on the angles used.     *)
(* Vectors are tuples of numbers, matrices are tuples of rows; the empty   *)
(* tuple is armadillo's default-constructed (0 x 0) object.                *)
(***************************************************************************)
EXTENDS Integers, Sequences, FiniteSets, TLC

\* ------------------------------------------------------------ bounds
MaxBody == 2      \* registered bodies
MaxJoint == 1     \* registered joints
MaxSolve == 1     \* calls of solve()
MaxInit == 2      \* calls of init()
MaxAssembly == 1  \* calls of Assembly()
MaxMag == 12      \* numerators of the numbers a function of Math.cpp is tried on
MaxDen == 4       \* and their denominators
MaxQDen == 5      \* denominators of the components of the quaternions tried
SqrtScale == 1000 \* a square root that is not rational is cut to 1/SqrtScale
MaxCoord == 1     \* coordinates of the vectors and matrices a function is tried on
MaxVec == 2       \* linalg Vector objects
MaxMat == 1       \* linalg Matrix objects
MaxSize == 2      \* elements of a Vector, rows and columns of a Matrix
MaxAlloc == 3     \* Armadillo objects allocated by the backend
MaxCalls == 3     \* calls made on the linalg objects

\* ------------------------------------------------------------ numbers
Abs(x) == IF x < 0 THEN -x ELSE x

RECURSIVE GCD(_, _)
GCD(a, b) == IF b = 0 THEN a ELSE GCD(b, a % b)

Rat(n, d) ==
    IF n = 0 THEN <<0, 1>>
    ELSE IF d = 1 THEN <<n, 1>>
    ELSE LET g == GCD(Abs(n), Abs(d))
             s == IF d < 0 THEN -1 ELSE 1
         IN <<s * (n \div g), s * (d \div g)>>

R(n) == <<n, 1>>
\* sums over the least common denominator and products cancelled crosswise
\* keep the intermediate integers small
RAdd(a, b) ==
    IF a[1] = 0 THEN b
    ELSE IF b[1] = 0 THEN a
    ELSE IF a[2] = b[2] THEN Rat(a[1] + b[1], a[2])
    ELSE LET g == GCD(a[2], b[2])
         IN Rat(a[1] * (b[2] \div g) + b[1] * (a[2] \div g), (a[2] \div g) * b[2])
RNeg(a) == <<-a[1], a[2]>>
RSub(a, b) == RAdd(a, RNeg(b))
RMul(a, b) ==
    IF a[1] = 0 \/ b[1] = 0 THEN <<0, 1>>
    ELSE IF a[2] = 1 /\ b[2] = 1 THEN <<a[1] * b[1], 1>>
    ELSE LET g1 == GCD(Abs(a[1]), b[2])
             g2 == GCD(Abs(b[1]), a[2])
         IN <<(a[1] \div g1) * (b[1] \div g2), (a[2] \div g2) * (b[2] \div g1)>>
RInv(a) == IF a[1] < 0 THEN <<-a[2], -a[1]>> ELSE <<a[2], a[1]>>
RDiv(a, b) == RMul(a, RInv(b))

\* ------------------------------------------------------------ armadillo
\* A tuple given by a rule is made explicit at once (rows are read many times).
Vec(f) == f \o <<>>

zeros(n) == Vec([i \in 1..n |-> R(0)])
zerosMat(r, c) == Vec([i \in 1..r |-> zeros(c)])
eye(r, c) == Vec([i \in 1..r |-> Vec([j \in 1..c |-> IF i = j THEN R(1) ELSE R(0)])])

n_rows(A) == Len(A)
n_cols(A) == IF Len(A) = 0 THEN 0 ELSE Len(A[1])

\* operator+ / operator- / scalar * on vectors of one length
VAdd(a, b) == Vec([i \in 1..Len(a) |-> RAdd(a[i], b[i])])
VSub(a, b) == Vec([i \in 1..Len(a) |-> RSub(a[i], b[i])])
VScale(c, a) == Vec([i \in 1..Len(a) |-> RMul(c, a[i])])

\* join_cols: B below A; join_rows: B to the right of A (same row count)
join_cols(A, B) == A \o B
join_rows(A, B) == Vec([i \in 1..Len(A) |-> A[i] \o B[i]])
trans(A) == Vec([j \in 1..n_cols(A) |-> Vec([i \in 1..n_rows(A) |-> A[i][j]])])

RECURSIVE Dot(_, _, _)
Dot(a, b, k) == IF k = 0 THEN R(0) ELSE RAdd(Dot(a, b, k - 1), RMul(a[k], b[k]))
MatVec(A, v) == Vec([i \in 1..Len(A) |-> Dot(A[i], v, Len(v))])
MatMul(A, B) == LET Bt == trans(B)
                IN Vec([i \in 1..Len(A) |-> Vec([j \in 1..Len(Bt) |-> Dot(A[i], Bt[j], Len(Bt[j]))])])
MatNeg(A) == Vec([i \in 1..Len(A) |-> VScale(R(-1), A[i])])
subvec(v, a, b) == SubSeq(v, a + 1, b + 1)     \* zero-based, inclusive

\* ------------------------------------------------------------ Math.cpp
\* sin and cos of an angle given in quarter turns (the angles of the model
\* are whole quarter turns; QuarterTurns is the identity on them).
QuarterTurns(a) == (a[1] \div a[2]) % 4
sin(a) == LET t == QuarterTurns(a) IN R(IF t = 1 THEN 1 ELSE IF t = 3 THEN -1 ELSE 0)
cos(a) == LET t == QuarterTurns(a) IN R(IF t = 0 THEN 1 ELSE IF t = 2 THEN -1 ELSE 0)

build_psi_tht_phi_TM(psi, tht, phi) ==
    LET spsi == sin(psi)
        cpsi == cos(psi)
        stht == sin(tht)
        ctht == cos(tht)
        sphi == sin(phi)
        cphi == cos(phi)
    IN << << RMul(cpsi, ctht), RMul(spsi, ctht), RNeg(stht) >>,
          << RSub(RMul(RMul(cpsi, stht), sphi), RMul(spsi, cphi)),
             RAdd(RMul(RMul(spsi, stht), sphi), RMul(cpsi, cphi)),
             RMul(ctht, sphi) >>,
          << RAdd(RMul(RMul(cpsi, stht), cphi), RMul(spsi, sphi)),
             RSub(RMul(RMul(spsi, stht), cphi), RMul(cpsi, sphi)),
             RMul(ctht, cphi) >> >>

\* the matrix of the product taken from the other side
skew_sym_transposed(vec) ==
    << << R(0), vec[3], RNeg(vec[2]) >>,
       << RNeg(vec[3]), R(0), vec[1] >>,
       << vec[2], RNeg(vec[1]), R(0) >> >>

\* skew_sym
skew_sym(vec) ==
    << << R(0), RNeg(vec[3]), vec[2] >>,
       << vec[3], R(0), RNeg(vec[1]) >>,
       << RNeg(vec[2]), vec[1], R(0) >> >>

\* |x|, x < y, and the square root of a number that is not negative: exact
\* where it is rational, cut off below otherwise
fabs(x) == <<Abs(x[1]), x[2]>>
RLt(a, b) == a[1] * b[2] < b[1] * a[2]

RECURSIVE ISqrtIn(_, _, _)
ISqrtIn(n, lo, hi) ==
    IF lo >= hi THEN lo
    ELSE LET mid == (lo + hi + 1) \div 2
         IN IF mid * mid <= n THEN ISqrtIn(n, mid, hi) ELSE ISqrtIn(n, lo, mid - 1)
ISqrt(n) == ISqrtIn(n, 0, IF n < 46340 THEN n ELSE 46340)
sqrt(x) ==
    LET rn == ISqrt(x[1])
        rd == ISqrt(x[2])
    IN IF rn * rn = x[1] /\ rd * rd = x[2] THEN <<rn, rd>>
       ELSE Rat(ISqrt(x[1] * x[2] * SqrtScale * SqrtScale), x[2] * SqrtScale)

\* an entry of a vector that nothing has written yet
Unset == <<0, 0>>

\* arma index_max: the index (from 0) of the largest entry, the first of them
\* when several are largest
index_max_last(v) ==
    CHOOSE j \in 0..(Len(v) - 1) :
        /\ \A i \in 1..Len(v) : ~RLt(v[j + 1], v[i])
        /\ \A i \in (j + 2)..Len(v) : RLt(v[i], v[j + 1])

index_max(v) ==
    CHOOSE j \in 0..(Len(v) - 1) :
        /\ \A i \in 1..Len(v) : ~RLt(v[j + 1], v[i])
        /\ \A i \in 1..j : RLt(v[i], v[j + 1])

Sum3(a, b, c) == RAdd(RAdd(a, b), c)
Quarter == Rat(1, 4)

\* Matrix2Quaternion without the transposition of its argument
Matrix2Quaternion_untransposed(Matrix_in, Quaternion) ==
    LET M(r, c) == Matrix_in[r + 1][c + 1]
        q_square == << fabs(RAdd(R(1), Sum3(M(0, 0), M(1, 1), M(2, 2)))),
                       fabs(RAdd(R(1), Sum3(M(0, 0), RNeg(M(1, 1)), RNeg(M(2, 2))))),
                       fabs(RAdd(R(1), Sum3(RNeg(M(0, 0)), M(1, 1), RNeg(M(2, 2))))),
                       fabs(RAdd(R(1), Sum3(RNeg(M(0, 0)), RNeg(M(1, 1)), M(2, 2)))) >>
        j == index_max(q_square)
        Qj == RMul(Rat(1, 2), sqrt(q_square[j + 1]))
        D(a, b) == RDiv(RMul(Quarter, RSub(a, b)), Qj)
        S(a, b) == RDiv(RMul(Quarter, RAdd(a, b)), Qj)
    IN IF j = 0 THEN [Quaternion EXCEPT ![1] = Qj, ![2] = D(M(2, 1), M(1, 2)),
                                        ![3] = D(M(0, 2), M(2, 0)), ![4] = D(M(1, 0), M(0, 1))]
       ELSE IF j = 1 THEN [Quaternion EXCEPT ![2] = Qj, ![1] = D(M(2, 1), M(1, 2)),
                                             ![3] = S(M(1, 0), M(0, 1)), ![4] = S(M(0, 2), M(2, 0))]
       ELSE IF j = 2 THEN [Quaternion EXCEPT ![3] = Qj, ![1] = D(M(0, 2), M(2, 0)),
                                             ![2] = S(M(1, 0), M(0, 1)), ![4] = S(M(2, 1), M(1, 2))]
       ELSE [Quaternion EXCEPT ![4] = Qj, ![1] = D(M(1, 0), M(0, 1)),
                               ![2] = S(M(2, 0), M(0, 2)), ![3] = S(M(2, 1), M(1, 2))]

\* Matrix2Quaternion: the argument transposed, the four candidates, the
\* largest of them, and the case of its index
Matrix2Quaternion(Matrix_in, Quaternion) ==
    LET Mt == trans(Matrix_in)
        M(r, c) == Mt[r + 1][c + 1]
        q_square == << fabs(RAdd(R(1), Sum3(M(0, 0), M(1, 1), M(2, 2)))),
                       fabs(RAdd(R(1), Sum3(M(0, 0), RNeg(M(1, 1)), RNeg(M(2, 2))))),
                       fabs(RAdd(R(1), Sum3(RNeg(M(0, 0)), M(1, 1), RNeg(M(2, 2))))),
                       fabs(RAdd(R(1), Sum3(RNeg(M(0, 0)), RNeg(M(1, 1)), M(2, 2)))) >>
        q_square_max == q_square[index_max(q_square) + 1]
        j == index_max(q_square)
        Qj == RMul(Rat(1, 2), sqrt(q_square_max))
        D(a, b) == RDiv(RMul(Quarter, RSub(a, b)), Qj)
        S(a, b) == RDiv(RMul(Quarter, RAdd(a, b)), Qj)
    IN IF j = 0 THEN [Quaternion EXCEPT ![1] = Qj, ![2] = D(M(2, 1), M(1, 2)),
                                        ![3] = D(M(0, 2), M(2, 0)), ![4] = D(M(1, 0), M(0, 1))]
       ELSE IF j = 1 THEN [Quaternion EXCEPT ![2] = Qj, ![1] = D(M(2, 1), M(1, 2)),
                                             ![3] = S(M(1, 0), M(0, 1)), ![4] = S(M(0, 2), M(2, 0))]
       ELSE IF j = 2 THEN [Quaternion EXCEPT ![3] = Qj, ![1] = D(M(0, 2), M(2, 0)),
                                             ![2] = S(M(1, 0), M(0, 1)), ![4] = S(M(2, 1), M(1, 2))]
       ELSE [Quaternion EXCEPT ![4] = Qj, ![1] = D(M(1, 0), M(0, 1)),
                               ![2] = S(M(2, 0), M(0, 2)), ![3] = S(M(2, 1), M(1, 2))]

\* Quaternion2Matrix
Quaternion2Matrix(Quaternion_in) ==
    LET Q(i) == Quaternion_in[i + 1]
        P(a, b) == RMul(Q(a), Q(b))
        Two(x) == RMul(R(2), x)
    IN << << RSub(Two(RAdd(P(0, 0), P(1, 1))), R(1)),
             Two(RAdd(P(1, 2), P(0, 3))),
             Two(RSub(P(1, 3), P(0, 2))) >>,
          << Two(RSub(P(1, 2), P(0, 3))),
             RSub(Two(RAdd(P(0, 0), P(2, 2))), R(1)),
             Two(RAdd(P(2, 3), P(0, 1))) >>,
          << Two(RAdd(P(1, 3), P(0, 2))),
             Two(RSub(P(2, 3), P(0, 1))),
             RSub(Two(RAdd(P(0, 0), P(3, 3))), R(1)) >> >>

\* A double as Math.cpp sees it: a number, a zero of either sign, an infinity
\* of either sign, or a NaN.
Double(cls, neg, val) == [cls |-> cls, neg |-> neg, val |-> val]
NaN == Double("nan", FALSE, R(0))
Doubles ==
    {Double("num", n < 0, Rat(n, d)) : n \in (-MaxMag..MaxMag) \ {0}, d \in 1..MaxDen}
        \cup {Double(c, b, R(0)) : c \in {"zero", "inf"}, b \in BOOLEAN}
        \cup {NaN}

\* variable < 0. and variable >= 0.: both false of a NaN, and a zero of
\* either sign is not below zero
LessThanZero(x) == (x.cls = "num" /\ x.val[1] < 0) \/ (x.cls = "inf" /\ x.neg)
AtLeastZero(x) == x.cls = "zero" \/ (x.cls = "num" /\ x.val[1] > 0) \/ (x.cls = "inf" /\ ~x.neg)

\* the second test written > in place of >=
sign_strict(variable) ==
    LET sign0 == 0
        sign1 == IF LessThanZero(variable) THEN -1 ELSE sign0
    IN IF AtLeastZero(variable) /\ variable.cls # "zero" THEN 1 ELSE sign1

\* sign (Math.cpp): 0 to start with, -1 if the first test holds, 1 if the
\* second does
sign(variable) ==
    LET sign0 == 0
        sign1 == IF LessThanZero(variable) THEN -1 ELSE sign0
    IN IF AtLeastZero(variable) THEN 1 ELSE sign1

\* ------------------------------------------------------------ Body
\* M(i, i) = MIn, M(i + 3, i + 3) = IIn(i) on top of the 6 x 6 identity
MassMatrix(MIn, IIn) ==
    Vec([i \in 1..6 |-> Vec([j \in 1..6 |->
        IF i # j THEN R(0) ELSE IF i <= 3 THEN MIn ELSE IIn[i - 3]])])

\* Body::Body(): every vector zero, M the identity, TBI zero
Body ==
    [ kind |-> "Body",
      POSITION |-> zeros(3), VELOCITY |-> zeros(3), ACCELERATION |-> zeros(3),
      ANGLE |-> zeros(3), ANGLE_VEL |-> zeros(3), ANGLE_ACC |-> zeros(3),
      M |-> eye(6, 6), FORCE |-> zeros(3), TORQUE |-> zeros(3),
      TBI |-> zerosMat(3, 3),
      TBI_Q |-> <<>>, TBID_Q |-> <<>> ]

\* The orientation block of the generalized state and its rate, as they are
\* when a body has been constructed: the orientation triple, and the angular
\* velocity passed through.
Initial_TBI_Q(AttIn) == AttIn
Initial_TBID_Q(ANG_VEL_In) == ANG_VEL_In

\* Ground::Ground(PosIn): fixed at the given reference position
Ground(PosIn) ==
    [ Body EXCEPT
        !.kind = "Ground",
        !.POSITION = PosIn,
        !.M = MassMatrix(R(1), <<R(1), R(1), R(1)>>),
        !.TBI = build_psi_tht_phi_TM(Body.ANGLE[3], Body.ANGLE[2], Body.ANGLE[1]),
        !.TBI_Q = Initial_TBI_Q(Body.ANGLE),
        !.TBID_Q = Initial_TBID_Q(Body.ANGLE_VEL) ]

Mobilized_body(PosIn, VelIn, AccIn, AttIn, ANG_VEL_In, ANG_ACC_In, MIn, IIn, F_In, T_In) ==
    [ Body EXCEPT
        !.kind = "Mobilized",
        !.POSITION = PosIn,
        !.VELOCITY = VelIn,
        !.ACCELERATION = AccIn,
        !.ANGLE = AttIn,
        !.ANGLE_VEL = ANG_VEL_In,
        !.ANGLE_ACC = ANG_ACC_In,
        !.FORCE = F_In,
        !.TORQUE = T_In,
        !.M = MassMatrix(MIn, IIn),
        !.TBI = build_psi_tht_phi_TM(AttIn[3], AttIn[2], AttIn[1]),
        !.TBI_Q = Initial_TBI_Q(AttIn),
        !.TBID_Q = Initial_TBID_Q(ANG_VEL_In) ]

\* update() that stores the orientation and leaves the matrix as it was
Mobilized_update_staleTBI(b, PosIn, VelIn, AttIn, ANG_VEL_In) ==
    [ b EXCEPT
        !.POSITION = PosIn,
        !.VELOCITY = VelIn,
        !.ANGLE = AttIn,
        !.ANGLE_VEL = ANG_VEL_In ]

\* update() that also clears the load applied to the body
Mobilized_update_clearsLoad(b, PosIn, VelIn, AttIn, ANG_VEL_In) ==
    [ b EXCEPT
        !.POSITION = PosIn,
        !.VELOCITY = VelIn,
        !.ANGLE = AttIn,
        !.ANGLE_VEL = ANG_VEL_In,
        !.FORCE = zeros(3),
        !.TORQUE = zeros(3),
        !.TBI = build_psi_tht_phi_TM(AttIn[3], AttIn[2], AttIn[1]) ]

\* Mobilized_body::update
Mobilized_update(b, PosIn, VelIn, AttIn, ANG_VEL_In) ==
    [ b EXCEPT
        !.POSITION = PosIn,
        !.VELOCITY = VelIn,
        !.ANGLE = AttIn,
        !.ANGLE_VEL = ANG_VEL_In,
        !.TBI = build_psi_tht_phi_TM(AttIn[3], AttIn[2], AttIn[1]) ]

\* Ground::update: empty body
Ground_update(b, PosIn, VelIn, AttIn, ANG_VEL_In) == b

\* virtual dispatch of Body::update
update(b, PosIn, VelIn, AttIn, ANG_VEL_In) ==
    IF b.kind = "Ground"
    THEN Ground_update(b, PosIn, VelIn, AttIn, ANG_VEL_In)
    ELSE Mobilized_update(b, PosIn, VelIn, AttIn, ANG_VEL_In)

get_TBI_Q(b) == b.TBI_Q
get_TBID_Q(b) == b.TBID_Q
set_POSITION(b, PosIn) == [b EXCEPT !.POSITION = PosIn]

\* ------------------------------------------------------------ Joint
\* A joint refers to its two bodies by object (heap[j.body_i], heap[j.body_j]).
Joint(TypeIn, PiIn, PjIn, QiIn, QjIn, i_ptr, j_ptr) ==
    [ type |-> TypeIn, Pi |-> PiIn, Pj |-> PjIn, Qi |-> QiIn, Qj |-> QjIn,
      body_i |-> i_ptr, body_j |-> j_ptr,
      CONSTRAINT |-> zeros(3), Cq |-> zerosMat(3, 12), GAMMA |-> zeros(3) ]

\* Joint::update: C, Cq and Gamma from the current state of the two bodies
Joint_update(j, heap) ==
    LET bi == heap[j.body_i]
        bj == heap[j.body_j]
        ri == MatVec(bi.TBI, j.Pi)                     \* rotated local offsets
        rj == MatVec(bj.TBI, j.Pj)
        C == VSub(VAdd(bj.POSITION, rj), VAdd(bi.POSITION, ri))
        Cq == join_rows(join_rows(MatNeg(eye(3, 3)), MatNeg(MatMul(bi.TBI, skew_sym(j.Pi)))),
                        join_rows(eye(3, 3), MatMul(bj.TBI, skew_sym(j.Pj))))
        wi == skew_sym(bi.ANGLE_VEL)
        wj == skew_sym(bj.ANGLE_VEL)
        Gamma_raw == VSub(MatVec(wi, MatVec(wi, ri)), MatVec(wj, MatVec(wj, rj)))
        qdot == bi.VELOCITY \o bi.ANGLE_VEL \o bj.VELOCITY \o bj.ANGLE_VEL
    IN [ j EXCEPT
           !.CONSTRAINT = C,
           !.Cq = Cq,
           !.GAMMA = VSub(VSub(Gamma_raw, VScale(R(2), MatVec(Cq, qdot))), C) ]

\* ------------------------------------------------------------ arma::solve
\* Gauss-Jordan elimination on the augmented matrix A | b in exact arithmetic:
\* the unique solution when A is regular, and no solution when it is singular.
RECURSIVE Eliminate(_, _, _)
Eliminate(A, n, c) ==
    IF c > n THEN [regular |-> TRUE, x |-> Vec([i \in 1..n |-> A[i][n + 1]])]
    ELSE LET cand == {p \in c..n : A[p][c][1] # 0}
         IN IF cand = {} THEN [regular |-> FALSE, x |-> <<>>]
            ELSE LET p == CHOOSE r \in cand : \A r2 \in cand : r <= r2
                     prow == Vec([j \in 1..(n + 1) |-> RDiv(A[p][j], A[p][c])])
                     B == Vec([i \in 1..n |->
                            IF i = c THEN prow
                            ELSE LET row == IF i = p THEN A[c] ELSE A[i]
                                 IN IF row[c][1] = 0 THEN row
                                    ELSE Vec([j \in 1..(n + 1) |->
                                           IF prow[j][1] = 0 THEN row[j]
                                           ELSE RSub(row[j], RMul(row[c], prow[j]))])])
                 IN Eliminate(B, n, c + 1)

Gauss(A, b) == Eliminate(Vec([i \in 1..Len(A) |-> Append(A[i], b[i])]), Len(A), 1)
IsSingular(A) == ~Gauss(A, zeros(Len(A))).regular

\* What arma::solve(A, b) can hand back.  A regular system has its solution.
\* For a singular one the library either throws std::runtime_error or, after a
\* warning on the error stream, returns an approximate solution as the result;
\* which vector that is, the model leaves open (two representatives).
ApproxFill == {R(0), R(1)}
arma_solve(A, b) ==
    LET g == Gauss(A, b)
    IN IF g.regular THEN {[thrown |-> FALSE, X |-> g.x]}
       ELSE {[thrown |-> TRUE, X |-> <<>>]}
            \cup {[thrown |-> FALSE, X |-> Vec([i \in 1..Len(A) |-> f])] : f \in ApproxFill}

\* ------------------------------------------------------------ Dynamics_Sys
VARIABLES
    heap,             \* the Body objects, by identity
    built,            \* the Body objects as they were constructed
    Body_ptr_array,   \* registered bodies (identities), in registration order
    Joint_ptr_array,  \* registered joints, in registration order
    nbody, njoint, dt,
    SYS_Cq, SYS_M, SYS_C, SYS_GAMMA, SYS_RHS, SYS_MAT,
    q, q_d,
    pc,               \* "idle", or the position inside solve()
    stage,            \* the RK4 stage solve() is in (1..4)
    q_temp, k,        \* locals of solve(): the stage input, and <<k1, k2, k3, k4>>
    ANS,              \* local of dynamic_function: the solution vector
    fault,            \* "none", or the error that ended the run
    call,             \* the last of init() and solve() that was called
    nsolve, ninit, nassembly,   \* calls of solve(), init() and Assembly() so far
    q_in, q_d_in,     \* q and q_d when the last solve() was entered
    evalIn,           \* the inputs of the derivative evaluations of that solve()
    trace,            \* the steps taken since the last call or evaluation began
    time, fout,       \* main(): the time accumulated, and the lines written to data.csv
    arg, res,         \* a function of Math.cpp on its own: its argument, and its result
    vecs, mats,       \* the linalg Vector and Matrix objects, by name
    arma,             \* the Armadillo objects the backend allocated; a data_ pointer is
                      \* an index into them, 0 the null pointer
    ret               \* the last call on a linalg object, what it returned and what
                      \* the objects were before it

sysvars == <<SYS_Cq, SYS_M, SYS_C, SYS_GAMMA, SYS_RHS, SYS_MAT>>
locals == <<stage, q_temp, k, ANS>>
history == <<nsolve, ninit, nassembly, q_in, q_d_in, evalIn>>
driver == <<time, fout>>
mathvars == <<arg, res>>
linalg == <<vecs, mats, arma, ret>>
vars == <<heap, built, Body_ptr_array, Joint_ptr_array, nbody, njoint, dt, sysvars, q, q_d,
          pc, locals, fault, call, history, trace,
          driver, mathvars, linalg>>

\* ---- Cal_Constraints
\* lines 27-34: the Jacobian, the stacked Gamma and the stacked residual
\* the columns of joint i added and its three rows forgotten
JacobianBlock_noRows(Cq, i, JCq) == join_rows(Cq, zerosMat(6 + i * 3, 6))

\* lines 28-29: SYS_Cq grows by six columns, and by the three rows of joint i
\* that hold its 3 x 12 block JCq from column 6 * i on
JacobianBlock(Cq, i, JCq) ==
    join_cols(join_rows(Cq, zerosMat(6 + i * 3, 6)), join_rows(zerosMat(3, 6 * i), JCq))

RECURSIVE Jacobian(_, _, _, _)
Jacobian(Cq, i, jpa, nj) ==
    IF i >= nj THEN Cq
    ELSE Jacobian(JacobianBlock(Cq, i, jpa[i + 1].Cq), i + 1, jpa, nj)

RECURSIVE StackJoints(_, _, _, _, _)
StackJoints(v, i, jpa, nj, field) ==
    IF i >= nj THEN v
    ELSE StackJoints(join_cols(v, jpa[i + 1][field]), i + 1, jpa, nj, field)

\* the block of body i put beside the blocks above it instead of below them
\* on the diagonal
MassBlock_beside(M, i, Mi) == join_cols(M, join_rows(Mi, zerosMat(6, 6 * i)))

\* lines 37-38: SYS_M grows by the 6 x 6 block Mi of body i, on the diagonal
MassBlock(M, i, Mi) ==
    join_cols(join_rows(M, zerosMat(6 * i, 6)), join_rows(zerosMat(6, 6 * i), Mi))

\* lines 36-39: the mass matrix
RECURSIVE MassLoop(_, _, _, _, _)
MassLoop(M, i, hp, bpa, nb) ==
    IF i >= nb THEN M
    ELSE MassLoop(MassBlock(M, i, hp[bpa[i + 1]].M), i + 1, hp, bpa, nb)

\* lines 43-53: the stacked [f1; f2] of every registered body
RECURSIVE StackBodies(_, _, _, _, _)
StackBodies(i, hp, bpa, f1, f2) ==
    IF i = 0 THEN <<>>
    ELSE StackBodies(i - 1, hp, bpa, f1, f2) \o hp[bpa[i]][f1] \o hp[bpa[i]][f2]

\* The whole of Cal_Constraints.  `old` holds the six system matrices before
\* the call; the result holds them after it and how the call ended.  The
\* product SYS_Cq * tmp_vec2 throws std::logic_error when the sizes do not
\* conform; everything assigned before it stays assigned.
Cal_Constraints(hp, bpa, jpa, nb, nj, old) ==
    IF Len(bpa) = 0
    THEN [old EXCEPT !.fault = "undefined"]           \* Body_ptr_array[0]
    ELSE
    LET Cq == Jacobian(eye(6, 6), 0, jpa, nj)
        GAMMA0 == StackJoints(zeros(6), 0, jpa, nj, "GAMMA")
        M == MassLoop(eye(6, 6), 1, hp, bpa, nb)
        C == StackJoints(join_cols(hp[bpa[1]].POSITION, hp[bpa[1]].ANGLE), 0, jpa, nj, "CONSTRAINT")
        tmp_vec == StackBodies(Len(bpa), hp, bpa, "FORCE", "TORQUE")
        tmp_vec2 == StackBodies(Len(bpa), hp, bpa, "VELOCITY", "ANGLE_VEL")
    IN IF n_cols(Cq) # Len(tmp_vec2)
       THEN [old EXCEPT !.SYS_Cq = Cq, !.SYS_GAMMA = GAMMA0, !.SYS_M = M, !.SYS_C = C,
                        !.fault = "logic_error"]
       ELSE LET GAMMA == VSub(VSub(GAMMA0, VScale(R(2), MatVec(Cq, tmp_vec2))), C)
            IN [ SYS_Cq |-> Cq, SYS_GAMMA |-> GAMMA, SYS_M |-> M, SYS_C |-> C,
                 SYS_RHS |-> join_cols(tmp_vec, GAMMA),
                 SYS_MAT |-> join_cols(join_rows(M, trans(Cq)),
                                       join_rows(Cq, zerosMat(n_rows(Cq), n_rows(Cq)))),
                 fault |-> "none" ]

Sys == [ SYS_Cq |-> SYS_Cq, SYS_GAMMA |-> SYS_GAMMA, SYS_M |-> SYS_M, SYS_C |-> SYS_C,
         SYS_RHS |-> SYS_RHS, SYS_MAT |-> SYS_MAT, fault |-> "none" ]

SetSys(s) ==
    /\ SYS_Cq' = s.SYS_Cq
    /\ SYS_GAMMA' = s.SYS_GAMMA
    /\ SYS_M' = s.SYS_M
    /\ SYS_C' = s.SYS_C
    /\ SYS_RHS' = s.SYS_RHS
    /\ SYS_MAT' = s.SYS_MAT

\* ---- construction of a scenario (main.cpp lines 31-68, python bindings)
V(a, b, c) == <<R(a), R(b), R(c)>>

Scenarios ==
    { \* the pendulum of main.cpp: unit mass and inertia, gravity, at rest
      [ dt |-> R(2),
        heap |-> << Ground(V(0, 0, 0)),
                    Mobilized_body(V(0, 0, 0), V(0, 0, 0), V(0, 0, 0), V(0, 0, 0), V(0, 0, 0),
                                   V(0, 0, 0), R(1), V(1, 1, 1), V(0, -1, 0), V(0, 0, 0)),
                    Mobilized_body(V(0, 0, 0), V(0, 0, 0), V(0, 0, 0), V(3, 0, 0), V(0, 0, 0),
                                   V(0, 0, 0), R(1), V(1, 1, 1), V(0, -1, 0), V(0, 0, 0)) >> ],
      \* a ground away from the origin, bodies that move and turn
      [ dt |-> R(2),
        heap |-> << Ground(V(1, 0, 0)),
                    Mobilized_body(V(0, 1, 0), V(1, 0, 0), V(0, 0, 0), V(0, 0, 1), V(0, 0, 1),
                                   V(0, 0, 0), R(2), V(1, 2, 1), V(0, -2, 0), V(0, 0, 1)),
                    Mobilized_body(V(0, 0, 1), V(0, 1, 0), V(0, 0, 0), V(1, 0, 0), V(1, 0, 0),
                                   V(0, 0, 0), R(1), V(1, 1, 1), V(1, 0, 0), V(0, 0, 0)) >> ],
      \* a body without mass and inertia
      [ dt |-> R(2),
        heap |-> << Ground(V(0, 0, 0)),
                    Mobilized_body(V(0, 0, 0), V(0, 0, 0), V(0, 0, 0), V(0, 0, 0), V(0, 0, 0),
                                   V(0, 0, 0), R(0), V(0, 0, 0), V(0, -1, 0), V(0, 0, 0)),
                    Mobilized_body(V(1, 0, 0), V(0, 0, 0), V(0, 0, 0), V(0, 1, 0), V(0, 0, 0),
                                   V(0, 0, 0), R(1), V(1, 1, 1), V(0, -1, 0), V(0, 0, 0)) >> ] }

\* the attachment offsets a joint is built with (main.cpp lines 33-36)
JointOffsets ==
    { [Pi |-> V(0, 0, 0), Pj |-> V(0, 1, 0)],
      [Pi |-> V(1, 0, 0), Pj |-> V(0, 0, 0)] }

Objects == DOMAIN heap
Registered == {Body_ptr_array[i] : i \in 1..Len(Body_ptr_array)}

\* Dynamics_Sys::Dynamics_Sys(dt_In), with the bodies of the scenario built
\* Dynamics_Sys::Dynamics_Sys, and the locals of main() before its loop
Constructed ==
    /\ time = R(0) /\ fout = <<>>
    /\ Body_ptr_array = <<>> /\ Joint_ptr_array = <<>>
    /\ nbody = 0 /\ njoint = 0
    /\ SYS_Cq = <<>> /\ SYS_M = <<>> /\ SYS_C = <<>>
    /\ SYS_GAMMA = <<>> /\ SYS_RHS = <<>> /\ SYS_MAT = <<>>
    /\ q = <<>> /\ q_d = <<>>
    /\ pc = "idle" /\ stage = 0 /\ q_temp = <<>> /\ k = <<>> /\ ANS = <<>>
    /\ fault = "none" /\ call = "new"
    /\ nsolve = 0 /\ ninit = 0 /\ nassembly = 0 /\ q_in = <<>> /\ q_d_in = <<>> /\ evalIn = <<>>
    /\ trace = <<>>

\* ---- linalg objects
\* a Vector or Matrix that is not constructed yet
NoVector == [live |-> FALSE, backend_ |-> 0, data_ |-> 0, size_ |-> 0]
NoMatrix == [live |-> FALSE, backend_ |-> 0, data_ |-> 0, rows_ |-> 0, cols_ |-> 0]
Snapshot == [vecs |-> vecs, mats |-> mats, arma |-> arma]
\* no linalg object exists and no call was made
NoLinalg ==
    /\ vecs = [n \in 1..MaxVec |-> NoVector]
    /\ mats = [n \in 1..MaxMat |-> NoMatrix]
    /\ arma = <<>>
    /\ ret = [n |-> 0, op |-> "none", a |-> 0, b |-> <<>>, w |-> FALSE, out |-> "none", ptr |-> 0,
              old |-> [vecs |-> [n \in 1..MaxVec |-> NoVector],
                       mats |-> [n \in 1..MaxMat |-> NoMatrix], arma |-> <<>>]]

Init ==
    /\ \E sc \in Scenarios : heap = sc.heap /\ built = sc.heap /\ dt = sc.dt
    /\ Constructed
    /\ arg = [fn |-> "none", x |-> NaN] /\ res = <<>>
    /\ NoLinalg

\* the body put in front of the list
AddBody_inFront(o) ==
    /\ pc = "idle" /\ nbody < MaxBody /\ o \notin Registered
    /\ Body_ptr_array' = <<o>> \o Body_ptr_array
    /\ nbody' = nbody + 1
    /\ trace' = <<>>
    /\ UNCHANGED <<driver, mathvars, linalg, built, heap, Joint_ptr_array, njoint, dt, sysvars, q, q_d, pc,
                   locals, fault, call, history>>

\* Dynamics_Sys::Add(Body *)
AddBody(o) ==
    /\ pc = "idle" /\ nbody < MaxBody /\ o \notin Registered
    /\ Body_ptr_array' = Append(Body_ptr_array, o)
    /\ nbody' = nbody + 1
    /\ trace' = <<>>
    /\ UNCHANGED <<driver, mathvars, linalg, built, heap, Joint_ptr_array, njoint, dt, sysvars, q, q_d, pc, locals, fault,
                   call, history>>

\* Dynamics_Sys::Add(Joint *), the joint built between the objects i and j;
\* joints are registered while the system is set up, before init()
AddJoint(i, j, off) ==
    /\ pc = "idle" /\ njoint < MaxJoint /\ i # j /\ ninit = 0
    /\ Joint_ptr_array' = Append(Joint_ptr_array,
                                 Joint(0, off.Pi, off.Pj, V(0, 0, 0), V(0, 0, 0), i, j))
    /\ njoint' = njoint + 1
    /\ trace' = <<>>
    /\ UNCHANGED <<driver, mathvars, linalg, built, heap, Body_ptr_array, nbody, dt, sysvars, q, q_d, pc, locals, fault,
                   call, history>>

\* the joint closed from the other end: body i moved onto body j
AssemblyStep_movesI(hp, jt) ==
    LET pos == VSub(VAdd(hp[jt.body_j].POSITION, jt.Pj), jt.Pi)
    IN [hp EXCEPT ![jt.body_i] = set_POSITION(@, pos)]

\* lines 65-70: the body j of a joint is put where the joint closes
AssemblyStep(hp, jt) ==
    LET pos == VSub(VAdd(hp[jt.body_i].POSITION, jt.Pi), jt.Pj)
    IN [hp EXCEPT ![jt.body_j] = set_POSITION(@, pos)]

\* Dynamics_Sys::Assembly: one joint after the other moves its body j
RECURSIVE AssemblyLoop(_, _, _, _)
AssemblyLoop(hp, i, jpa, nj) ==
    IF i >= nj THEN hp
    ELSE AssemblyLoop(AssemblyStep(hp, jpa[i + 1]), i + 1, jpa, nj)

Assembly ==
    /\ pc = "idle" /\ nassembly < MaxAssembly
    /\ heap' = AssemblyLoop(heap, 0, Joint_ptr_array, njoint)
    /\ nassembly' = nassembly + 1
    /\ trace' = <<>>
    /\ UNCHANGED <<driver, mathvars, linalg, built, Body_ptr_array, Joint_ptr_array, nbody, njoint, dt, sysvars, q, q_d, pc,
                   locals, fault, call, nsolve, ninit, q_in, q_d_in, evalIn>>

\* an exception caught and dropped where it is thrown
Outcome_swallowed(f, next) == IF f = "undefined" THEN "undefined" ELSE next

\* Where control is after a step: an exception leaves the call and, as nothing
\* catches it (main.cpp), ends the run; undefined behaviour ends the model.
Outcome(f, next) ==
    IF f = "none" THEN next ELSE IF f = "undefined" THEN "undefined" ELSE "failed"

\* Dynamics_Sys::init: four blocks per body pushed onto q and onto q_d, then
\* Cal_Constraints
RECURSIVE InitBlocks(_, _, _, _)
InitBlocks(i, hp, bpa, fields) ==
    IF i = 0 THEN <<>>
    ELSE InitBlocks(i - 1, hp, bpa, fields)
         \o << hp[bpa[i]][fields[1]], hp[bpa[i]][fields[2]],
               hp[bpa[i]][fields[3]], hp[bpa[i]][fields[4]] >>

init ==
    /\ pc = "idle" /\ ninit < MaxInit
    /\ q' = q \o InitBlocks(Len(Body_ptr_array), heap, Body_ptr_array,
                            <<"POSITION", "VELOCITY", "TBI_Q", "ANGLE_VEL">>)
    /\ q_d' = q_d \o InitBlocks(Len(Body_ptr_array), heap, Body_ptr_array,
                                <<"VELOCITY", "ACCELERATION", "TBID_Q", "ANGLE_ACC">>)
    /\ LET r == Cal_Constraints(heap, Body_ptr_array, Joint_ptr_array, nbody, njoint, Sys)
       IN /\ SetSys(r)
          /\ fault' = r.fault
          /\ pc' = Outcome(r.fault, "idle")
    /\ call' = "init" /\ ninit' = ninit + 1
    /\ trace' = <<"assemble">>
    /\ UNCHANGED <<driver, mathvars, linalg, built, heap, Body_ptr_array, Joint_ptr_array, nbody, njoint, dt, locals,
                   nsolve, nassembly, q_in, q_d_in, evalIn>>

\* ---- solve() and dynamic_function
\* the two loops of dynamic_function in the other order
dynamic_function_jointsFirst == <<"joints", "bodies", "assemble", "linsolve">>

\* The order of the steps of one derivative evaluation (dynamic_function):
\* the body loop, the joint loop, Cal_Constraints, the linear solve.
dynamic_function_order == <<"bodies", "joints", "assemble", "linsolve">>

After(step) ==
    LET i == CHOOSE n \in 1..4 : dynamic_function_order[n] = step
    IN IF i = 4 THEN "advance" ELSE dynamic_function_order[i + 1]

\* std::vector<arma::vec> k(q.size()): that many empty vectors
EmptyBlocks(n) == Vec([i \in 1..n |-> <<>>])

\* solve(), lines 90-98: the locals, and the first call of dynamic_function
solve ==
    /\ pc = "idle" /\ nsolve < MaxSolve
    /\ q_temp' = q
    /\ k' = <<EmptyBlocks(Len(q)), EmptyBlocks(Len(q)), EmptyBlocks(Len(q)), EmptyBlocks(Len(q))>>
    /\ stage' = 1 /\ ANS' = <<>>
    /\ pc' = dynamic_function_order[1]
    /\ call' = "solve" /\ trace' = <<>>
    /\ UNCHANGED fault
    /\ nsolve' = nsolve + 1 /\ q_in' = q /\ q_d_in' = q_d /\ evalIn' = <<q>>
    /\ UNCHANGED <<driver, mathvars, linalg, built, heap, Body_ptr_array, Joint_ptr_array, nbody, njoint, dt, sysvars, q, q_d,
                   ninit, nassembly>>

\* the index of a registered object in Body_ptr_array (zero-based)
IndexOf(o) == (CHOOSE i \in 1..Len(Body_ptr_array) : Body_ptr_array[i] = o) - 1

\* the bodies updated in the first evaluation of a step only, and kept as
\* they are in the later ones
UpdateBodies_firstStageOnly ==
    /\ pc = "bodies"
    /\ IF nbody * 4 > Len(q_temp)
       THEN /\ pc' = "undefined" /\ fault' = "undefined"
            /\ UNCHANGED <<heap, trace>>
       ELSE /\ heap' = [o \in DOMAIN heap |->
                          IF o \in Registered /\ stage = 1
                          THEN LET i == IndexOf(o)
                               IN update(heap[o], q_temp[i * 4 + 1], q_temp[i * 4 + 2],
                                         q_temp[i * 4 + 3], q_temp[i * 4 + 4])
                          ELSE heap[o]]
            /\ pc' = After("bodies")
            /\ trace' = Append(trace, "bodies")
            /\ UNCHANGED fault
    /\ UNCHANGED <<driver, mathvars, linalg, built, Body_ptr_array, Joint_ptr_array, nbody, njoint, dt,
                   sysvars, q, q_d, locals, call, history>>

\* dynamic_function, lines 126-128: every registered body updated from its
\* four blocks of qIn.  Reading qIn past its end is undefined.
UpdateBodies ==
    /\ pc = "bodies"
    /\ IF nbody * 4 > Len(q_temp)
       THEN /\ pc' = "undefined" /\ fault' = "undefined"
            /\ UNCHANGED <<heap, trace>>
       ELSE /\ heap' = [o \in DOMAIN heap |->
                          IF o \in Registered
                          THEN LET i == IndexOf(o)
                               IN update(heap[o], q_temp[i * 4 + 1], q_temp[i * 4 + 2],
                                         q_temp[i * 4 + 3], q_temp[i * 4 + 4])
                          ELSE heap[o]]
            /\ pc' = After("bodies")
            /\ trace' = Append(trace, "bodies")
            /\ UNCHANGED fault
    /\ UNCHANGED <<driver, mathvars, linalg, built, Body_ptr_array, Joint_ptr_array, nbody, njoint, dt, sysvars, q, q_d,
                   locals, call, history>>

\* dynamic_function, lines 130-132: every registered joint updated
UpdateJoints ==
    /\ pc = "joints"
    /\ Joint_ptr_array' = Vec([i \in 1..Len(Joint_ptr_array) |->
                                 Joint_update(Joint_ptr_array[i], heap)])
    /\ pc' = After("joints")
    /\ trace' = Append(trace, "joints")
    /\ UNCHANGED <<driver, mathvars, linalg, built, heap, Body_ptr_array, nbody, njoint, dt, sysvars, q, q_d, locals, fault,
                   call, history>>

\* dynamic_function, line 134.  An exception leaves solve().
Assemble ==
    /\ pc = "assemble"
    /\ LET r == Cal_Constraints(heap, Body_ptr_array, Joint_ptr_array, nbody, njoint, Sys)
       IN /\ SetSys(r)
          /\ fault' = r.fault
          /\ pc' = Outcome(r.fault, After("assemble"))
    /\ trace' = Append(trace, "assemble")
    /\ UNCHANGED <<driver, mathvars, linalg, built, heap, Body_ptr_array, Joint_ptr_array, nbody, njoint, dt, q, q_d, locals,
                   call, history>>

\* dynamic_function, lines 148-153: the derivative blocks of every body
\* the accelerations of body i read one block of six too far down ANS
qdOutBlocks_nextBlock(out, i, qIn, X) ==
    [out EXCEPT ![i * 4 + 1] = qIn[i * 4 + 2],
                ![i * 4 + 2] = subvec(X, i * 6 + 6, i * 6 + 8),
                ![i * 4 + 3] = get_TBID_Q(heap[Body_ptr_array[i + 1]]),
                ![i * 4 + 4] = subvec(X, i * 6 + 9, i * 6 + 11)]

\* lines 149-152: the four derivative blocks of body i
qdOutBlocks(out, i, qIn, X) ==
    [out EXCEPT ![i * 4 + 1] = qIn[i * 4 + 2],
                ![i * 4 + 2] = subvec(X, i * 6, i * 6 + 2),
                ![i * 4 + 3] = get_TBID_Q(heap[Body_ptr_array[i + 1]]),
                ![i * 4 + 4] = subvec(X, i * 6 + 3, i * 6 + 5)]

RECURSIVE qdOut(_, _, _, _)
qdOut(out, i, qIn, X) ==
    IF i >= nbody THEN out
    ELSE qdOut(qdOutBlocks(out, i, qIn, X), i + 1, qIn, X)

\* dynamic_function, lines 136-153: the linear solve and the output blocks
LinearSolve ==
    /\ pc = "linsolve"
    /\ \E r \in arma_solve(SYS_MAT, SYS_RHS) :
         IF r.thrown
         THEN /\ fault' = "runtime_error" /\ pc' = Outcome("runtime_error", "idle")
              /\ UNCHANGED <<ANS, k>>
         ELSE /\ ANS' = r.X
              /\ k' = [k EXCEPT ![stage] = qdOut(k[stage], 0, q_temp, r.X)]
              /\ pc' = After("linsolve")
              /\ UNCHANGED fault
    /\ trace' = Append(trace, "linsolve")
    /\ UNCHANGED <<driver, mathvars, linalg, built, heap, Body_ptr_array, Joint_ptr_array, nbody, njoint, dt, sysvars, q, q_d,
                   stage, q_temp, call, history>>

\* q[i] + c * k[i] for every block; the sum of two vectors of different
\* lengths throws std::logic_error
Conform(a, b) == \A i \in 1..Len(a) : Len(a[i]) = Len(b[i])
StageInput(base, c, ks) == Vec([i \in 1..Len(base) |-> VAdd(base[i], VScale(c, ks[i]))])
Half == Rat(1, 2)
\* the full step of the last stage input forgotten
StageFactor_allHalf(s) == RMul(Half, dt)

\* lines 100, 106, 112: the factor of the slope in the input of stage s + 1
StageFactor(s) == IF s = 3 THEN dt ELSE RMul(Half, dt)

\* the third stage left out: the second evaluation is followed by the fourth
NextStage_skipsThird ==
    /\ pc = "advance" /\ stage < 4
    /\ IF Conform(q, k[stage])
       THEN /\ q_temp' = StageInput(q, StageFactor(stage), k[stage])
            /\ stage' = IF stage = 2 THEN 4 ELSE stage + 1
            /\ pc' = dynamic_function_order[1]
            /\ evalIn' = Append(evalIn, q_temp')
            /\ trace' = <<>>
            /\ UNCHANGED fault
       ELSE /\ fault' = "logic_error" /\ pc' = Outcome("logic_error", "idle")
            /\ UNCHANGED <<q_temp, stage, evalIn, trace>>
    /\ UNCHANGED <<driver, mathvars, linalg, built, heap, Body_ptr_array, Joint_ptr_array, nbody, njoint, dt, sysvars, q, q_d,
                   k, ANS, call, nsolve, ninit, nassembly, q_in, q_d_in>>

\* solve(), lines 99-113: the input of the next stage, and the next call
NextStage ==
    /\ pc = "advance" /\ stage < 4
    /\ IF Conform(q, k[stage])
       THEN /\ q_temp' = StageInput(q, StageFactor(stage), k[stage])
            /\ stage' = stage + 1
            /\ pc' = dynamic_function_order[1]
            /\ evalIn' = Append(evalIn, q_temp')
            /\ trace' = <<>>
            /\ UNCHANGED fault
       ELSE /\ fault' = "logic_error" /\ pc' = Outcome("logic_error", "idle")
            /\ UNCHANGED <<q_temp, stage, evalIn, trace>>
    /\ UNCHANGED <<driver, mathvars, linalg, built, heap, Body_ptr_array, Joint_ptr_array, nbody, njoint, dt, sysvars, q, q_d,
                   k, ANS, call, nsolve, ninit, nassembly, q_in, q_d_in>>

\* solve(), lines 114-117: block after block, q_d[i] and then q[i]
Sixth == Rat(1, 6)
Slope(i) == VScale(Sixth, VAdd(VAdd(k[1][i], VScale(R(2), k[2][i])),
                               VAdd(VScale(R(2), k[3][i]), k[4][i])))

RECURSIVE CommitLoop(_, _, _)
CommitLoop(i, qq, qd) ==
    IF i > Len(q_temp) THEN [q |-> qq, q_d |-> qd, fault |-> "none"]
    ELSE IF ~(Len(k[1][i]) = Len(k[2][i]) /\ Len(k[2][i]) = Len(k[3][i])
              /\ Len(k[3][i]) = Len(k[4][i]))
    THEN [q |-> qq, q_d |-> qd, fault |-> "logic_error"]
    ELSE LET d == Slope(i)
         IN IF Len(d) # Len(qq[i])
            THEN [q |-> qq, q_d |-> [qd EXCEPT ![i] = d], fault |-> "logic_error"]
            ELSE CommitLoop(i + 1, [qq EXCEPT ![i] = VAdd(qq[i], VScale(dt, d))],
                            [qd EXCEPT ![i] = d])

Commit ==
    /\ pc = "advance" /\ stage = 4
    /\ LET r == CommitLoop(1, q, q_d)
       IN /\ q' = r.q /\ q_d' = r.q_d /\ fault' = r.fault
    /\ pc' = Outcome(fault', "idle")
    /\ trace' = Append(trace, "commit")
    /\ UNCHANGED <<driver, mathvars, linalg, built, heap, Body_ptr_array, Joint_ptr_array, nbody, njoint, dt, sysvars, locals,
                   call, history>>

\* ---- the output file
RLe(a, b) == a[1] * b[2] <= b[1] * a[2]

RECURSIVE Pow10(_)
Pow10(e) == IF e = 0 THEN 1 ELSE 10 * Pow10(e - 1)

RECURSIVE Digits(_)
Digits(m) == IF m < 10 THEN 1 ELSE 1 + Digits(m \div 10)

RECURSIVE NegExponent(_, _)
NegExponent(n, d) == IF 10 * n >= d THEN -1 ELSE NegExponent(10 * n, d) - 1

\* the decimal exponent of a number that is not zero: 10^e <= |x| < 10^(e+1)
Exponent10(x) ==
    IF Abs(x[1]) >= x[2] THEN Digits(Abs(x[1]) \div x[2]) - 1 ELSE NegExponent(Abs(x[1]), x[2])

\* long division: <<quotient, remainder>> of (qt + r / d) * 10^s by 1
RECURSIVE Shift(_, _, _, _)
Shift(qt, r, d, s) ==
    IF s = 0 THEN <<qt, r>> ELSE Shift(10 * qt + (10 * r) \div d, (10 * r) % d, d, s - 1)

\* n / d rounded to the nearest integer
Round(n, d) == (2 * n + d) \div (2 * d)

\* operator<<(std::ostream &, double) at the default precision: the number
\* that the six significant digits written stand for
Format6(x) ==
    IF x[1] = 0 THEN R(0)
    ELSE LET e == Exponent10(x)
             sgn == IF x[1] < 0 THEN -1 ELSE 1
             n == Abs(x[1])
         IN IF e <= 5
            THEN LET qr == Shift(n \div x[2], n % x[2], x[2], 5 - e)
                     m == qr[1] + (IF 2 * qr[2] >= x[2] THEN 1 ELSE 0)
                 IN Rat(sgn * m, Pow10(5 - e))
            ELSE R(sgn * Round(n, x[2] * Pow10(e - 5)) * Pow10(e - 5))

\* the fields started at the first body, Ground
output_fields_fromGround(qq, nb) ==
    Vec([n \in 1..(3 * nb) |-> Format6(qq[4 * ((n - 1) \div 3) + 1][((n - 1) % 3) + 1])])

\* Dynamics_Sys::output_data, lines 164-167: the fields of the line, three of
\* block 4 * i of q for every body i from 1 on
output_fields(qq, nb) ==
    Vec([n \in 1..(3 * (nb - 1)) |->
           Format6(qq[4 * ((n - 1) \div 3 + 1) + 1][((n - 1) % 3) + 1])])

\* main(), lines 93-98, after a solve() that returned: the time advanced and
\* the line of the step written.  q[i * 4] past the end of q is undefined.
output_data ==
    /\ pc = "idle" /\ call = "solve" /\ Len(fout) < nsolve
    /\ time' = RAdd(time, dt)
    /\ IF nbody >= 2 /\ 4 * (nbody - 1) + 1 > Len(q)
       THEN /\ pc' = "undefined" /\ fault' = "undefined"
            /\ fout' = Append(fout, <<Format6(time')>>)
       ELSE /\ fout' = Append(fout, <<Format6(time')>> \o output_fields(q, nbody))
            /\ UNCHANGED <<pc, fault>>
    /\ UNCHANGED <<mathvars, linalg, built, heap, Body_ptr_array, Joint_ptr_array, nbody, njoint, dt,
                   sysvars, q, q_d, locals, call, history, trace>>

Next ==
    \/ \E o \in Objects : AddBody(o)
    \/ \E i, j \in Objects : \E off \in JointOffsets : AddJoint(i, j, off)
    \/ Assembly
    \/ init
    \/ solve
    \/ UpdateBodies
    \/ UpdateJoints
    \/ Assemble
    \/ LinearSolve
    \/ NextStage
    \/ Commit
    \/ output_data

Spec == Init /\ [][Next]_vars

\* ---- the functions of Math.cpp, each called on its own
\* no system is built: the function is given one of its arguments
\* the arguments: unit quaternions with rational components, 3 x 3 matrices
\* that are no rotations, and pairs of vectors
Fractions == UNION {{Rat(n, d) : n \in (-d)..d} : d \in 1..MaxQDen}
Norm2(v) == Dot(v, v, Len(v))
UnitQuaternions == {v \in Fractions \X Fractions \X Fractions \X Fractions : Norm2(v) = R(1)}
Coords == (-MaxCoord)..MaxCoord
Matrices3 ==
    { << <<R(a), R(u), R(l)>>, <<R(l), R(b), R(u)>>, <<R(u), R(l), R(c)>> >> :
        a \in Coords, b \in Coords, c \in Coords, u \in Coords, l \in Coords }
Vectors3 == {<<R(a), Rat(b, 2), R(c)>> : a \in Coords, b \in Coords, c \in Coords}

MathInit ==
    /\ heap = <<>> /\ built = <<>> /\ dt = R(0)
    /\ Constructed
    /\ \/ arg \in {[fn |-> "sign", x |-> d] : d \in Doubles}
       \/ arg \in {[fn |-> "Quaternion2Matrix", x |-> v] : v \in UnitQuaternions}
       \/ arg \in {[fn |-> "Matrix2Quaternion", x |-> m] : m \in Matrices3}
       \/ arg \in {[fn |-> "skew_sym", x |-> <<v, w>>] : v \in Vectors3, w \in Vectors3}
    /\ res = <<>>
    /\ NoLinalg

Call_sign ==
    /\ arg.fn = "sign" /\ res = <<>>
    /\ res' = <<sign(arg.x)>>
    /\ UNCHANGED <<arg, driver, linalg, built, heap, Body_ptr_array, Joint_ptr_array, nbody, njoint, dt,
                   sysvars, q, q_d, pc, locals, fault, call, history, trace>>

\* what a call in Math.cpp leaves alone: the system and main()
MathFrame ==
    UNCHANGED <<arg, driver, linalg, built, heap, Body_ptr_array, Joint_ptr_array, nbody, njoint, dt,
                sysvars, q, q_d, pc, locals, fault, call, history, trace>>

Call_Quaternion2Matrix ==
    /\ arg.fn = "Quaternion2Matrix" /\ res = <<>>
    /\ res' = <<Quaternion2Matrix(arg.x)>>
    /\ MathFrame

\* Matrix2Quaternion, on a matrix given or on the matrix Quaternion2Matrix
\* returned; the vector it writes to holds nothing yet
Call_Matrix2Quaternion ==
    /\ \/ arg.fn = "Matrix2Quaternion" /\ res = <<>>
       \/ arg.fn = "Quaternion2Matrix" /\ Len(res) = 1
    /\ res' = Append(res, Matrix2Quaternion(IF res = <<>> THEN arg.x ELSE res[1],
                                            <<Unset, Unset, Unset, Unset>>))
    /\ MathFrame

Call_skew_sym ==
    /\ arg.fn = "skew_sym" /\ res = <<>>
    /\ res' = <<skew_sym(arg.x[1])>>
    /\ MathFrame

MathNext ==
    \/ Call_sign
    \/ Call_Quaternion2Matrix
    \/ Call_Matrix2Quaternion
    \/ Call_skew_sym

MathSpec == MathInit /\ [][MathNext]_vars

\* ---- the linalg layer: Vector and Matrix over the Armadillo backend
\* Vector::Vector(backend, size) and Matrix::Matrix(backend, rows, cols), the
\* backend not null: no data yet
Vector(backend, size) == [live |-> TRUE, backend_ |-> backend, data_ |-> 0, size_ |-> size]
Matrix(backend, rows, cols) ==
    [live |-> TRUE, backend_ |-> backend, data_ |-> 0, rows_ |-> rows, cols_ |-> cols]

\* Vector::Vector(const Vector &): the new vector
Vector_copy(other) ==
    [live |-> TRUE, backend_ |-> other.backend_, data_ |-> 0, size_ |-> other.size_]

\* Vector::Vector(Vector &&): the new vector, and what is left of the other
Vector_move(other) ==
    [ this |-> [live |-> TRUE, backend_ |-> other.backend_, data_ |-> other.data_,
                size_ |-> other.size_],
      other |-> [other EXCEPT !.backend_ = 0, !.data_ = 0, !.size_ = 0] ]

\* Vector::operator=(const Vector &), this and other being two objects
Vector_copy_assign(this, other) ==
    [this EXCEPT !.backend_ = other.backend_, !.size_ = other.size_]

\* a move assignment that leaves the data with the other vector as well
Vector_move_assign_shared(this, other) ==
    [ this |-> [this EXCEPT !.backend_ = other.backend_, !.data_ = other.data_,
                            !.size_ = other.size_],
      other |-> [other EXCEPT !.backend_ = 0, !.size_ = 0] ]

\* Vector::operator=(Vector &&), this and other being two objects
Vector_move_assign(this, other) ==
    [ this |-> [this EXCEPT !.backend_ = other.backend_, !.data_ = other.data_,
                            !.size_ = other.size_],
      other |-> [other EXCEPT !.backend_ = 0, !.data_ = 0, !.size_ = 0] ]

\* Vector::operator[] and Matrix::operator(): the element of the Armadillo
\* object behind data_; without one, or past its end, the access is undefined
Vector_index(v, index, st) ==
    IF v.data_ = 0 \/ index >= Len(st[v.data_])
    THEN [out |-> "undefined", ptr |-> 0]
    ELSE [out |-> "element", ptr |-> v.data_]
Matrix_index(m, row, col, st) ==
    IF m.data_ = 0 \/ row >= n_rows(st[m.data_]) \/ col >= n_cols(st[m.data_])
    THEN [out |-> "undefined", ptr |-> 0]
    ELSE [out |-> "element", ptr |-> m.data_]

\* at() that lets the index one past the end through
Vector_at_lax(v, index, st) ==
    IF index > v.size_ THEN [out |-> "LinearAlgebraException", ptr |-> 0]
    ELSE Vector_index(v, index, st)

\* Vector::at
Vector_at(v, index, st) ==
    IF index >= v.size_ THEN [out |-> "LinearAlgebraException", ptr |-> 0]
    ELSE Vector_index(v, index, st)

\* Matrix::at
Matrix_at(m, row, col, st) ==
    IF row >= m.rows_ \/ col >= m.cols_ THEN [out |-> "LinearAlgebraException", ptr |-> 0]
    ELSE Matrix_index(m, row, col, st)

\* the value a test writes through a reference
Written == R(9)
Sizes == 0..MaxSize
Running == ret.out # "undefined" /\ ret.n < MaxCalls
Called(op, a, b, w, out, ptr) ==
    ret' = [n |-> ret.n + 1, op |-> op, a |-> a, b |-> b, w |-> w, out |-> out, ptr |-> ptr, old |-> Snapshot]
LinalgFrame ==
    UNCHANGED <<mathvars, driver, built, heap, Body_ptr_array, Joint_ptr_array, nbody, njoint,
                dt, sysvars, q, q_d, pc, locals, fault, call, history, trace>>

\* ArmadilloBackend::createVector(size): a Col of zeros behind a new Vector
createVector_size(n, size) ==
    /\ Running /\ ~vecs[n].live /\ Len(arma) < MaxAlloc
    /\ arma' = Append(arma, zeros(size))
    /\ vecs' = [vecs EXCEPT ![n] = [Vector(1, size) EXCEPT !.data_ = Len(arma) + 1]]
    /\ Called("createVector", n, <<>>, FALSE, "none", Len(arma) + 1)
    /\ UNCHANGED mats /\ LinalgFrame

\* ArmadilloBackend::createVector(data): a Col holding the data
createVector_data(n, size) ==
    /\ Running /\ ~vecs[n].live /\ Len(arma) < MaxAlloc /\ size > 0
    /\ arma' = Append(arma, Vec([i \in 1..size |-> R(i)]))
    /\ vecs' = [vecs EXCEPT ![n] = [Vector(1, size) EXCEPT !.data_ = Len(arma) + 1]]
    /\ Called("createVector", n, <<>>, FALSE, "none", Len(arma) + 1)
    /\ UNCHANGED mats /\ LinalgFrame

\* ArmadilloBackend::createMatrix(rows, cols): a Mat of zeros behind a new Matrix
createMatrix(n, rows, cols) ==
    /\ Running /\ ~mats[n].live /\ Len(arma) < MaxAlloc
    /\ arma' = Append(arma, zerosMat(rows, cols))
    /\ mats' = [mats EXCEPT ![n] = [Matrix(1, rows, cols) EXCEPT !.data_ = Len(arma) + 1]]
    /\ Called("createMatrix", n, <<>>, FALSE, "none", Len(arma) + 1)
    /\ UNCHANGED vecs /\ LinalgFrame

\* auto dst(src);
CopyConstruct(dst, src) ==
    /\ Running /\ ~vecs[dst].live /\ vecs[src].live
    /\ vecs' = [vecs EXCEPT ![dst] = Vector_copy(vecs[src])]
    /\ Called("copy", dst, <<src>>, FALSE, "none", 0)
    /\ UNCHANGED <<mats, arma>> /\ LinalgFrame

\* auto dst(std::move(src));
MoveConstruct(dst, src) ==
    /\ Running /\ ~vecs[dst].live /\ vecs[src].live
    /\ LET r == Vector_move(vecs[src])
       IN vecs' = [vecs EXCEPT ![dst] = r.this, ![src] = r.other]
    /\ Called("move", dst, <<src>>, FALSE, "none", 0)
    /\ UNCHANGED <<mats, arma>> /\ LinalgFrame

\* dst = src;  nothing is done when both are one object
CopyAssign(dst, src) ==
    /\ Running /\ vecs[dst].live /\ vecs[src].live
    /\ vecs' = IF dst = src THEN vecs
               ELSE [vecs EXCEPT ![dst] = Vector_copy_assign(vecs[dst], vecs[src])]
    /\ Called("copy", dst, <<src>>, FALSE, "none", 0)
    /\ UNCHANGED <<mats, arma>> /\ LinalgFrame

\* dst = std::move(src);  nothing is done when both are one object
MoveAssign(dst, src) ==
    /\ Running /\ vecs[dst].live /\ vecs[src].live
    /\ vecs' = IF dst = src THEN vecs
               ELSE LET r == Vector_move_assign(vecs[dst], vecs[src])
                    IN [vecs EXCEPT ![dst] = r.this, ![src] = r.other]
    /\ Called("move", dst, <<src>>, FALSE, "none", 0)
    /\ UNCHANGED <<mats, arma>> /\ LinalgFrame

\* vecs[n].at(index), read, or written through the reference when w holds
Call_Vector_at(n, index, w) ==
    /\ Running /\ vecs[n].live
    /\ LET r == Vector_at(vecs[n], index, arma)
       IN /\ arma' = IF w /\ r.out = "element"
                     THEN [arma EXCEPT ![r.ptr][index + 1] = Written]
                     ELSE arma
          /\ Called("Vector::at", n, <<index>>, w, r.out, r.ptr)
    /\ UNCHANGED <<vecs, mats>> /\ LinalgFrame

\* mats[n].at(row, col), read, or written through the reference when w holds
Call_Matrix_at(n, row, col, w) ==
    /\ Running /\ mats[n].live
    /\ LET r == Matrix_at(mats[n], row, col, arma)
       IN /\ arma' = IF w /\ r.out = "element"
                     THEN [arma EXCEPT ![r.ptr][row + 1][col + 1] = Written]
                     ELSE arma
          /\ Called("Matrix::at", n, <<row, col>>, w, r.out, r.ptr)
    /\ UNCHANGED <<vecs, mats>> /\ LinalgFrame

LinalgInit ==
    /\ heap = <<>> /\ built = <<>> /\ dt = R(0)
    /\ Constructed
    /\ arg = [fn |-> "none", x |-> NaN] /\ res = <<>>
    /\ NoLinalg

LinalgNext ==
    \/ \E n \in 1..MaxVec, size \in Sizes : createVector_size(n, size)
    \/ \E n \in 1..MaxVec, size \in Sizes : createVector_data(n, size)
    \/ \E n \in 1..MaxMat, rows \in Sizes, cols \in Sizes : createMatrix(n, rows, cols)
    \/ \E dst \in 1..MaxVec, src \in 1..MaxVec : CopyConstruct(dst, src)
    \/ \E dst \in 1..MaxVec, src \in 1..MaxVec : MoveConstruct(dst, src)
    \/ \E dst \in 1..MaxVec, src \in 1..MaxVec : CopyAssign(dst, src)
    \/ \E dst \in 1..MaxVec, src \in 1..MaxVec : MoveAssign(dst, src)
    \/ \E n \in 1..MaxVec, index \in 0..(MaxSize + 1), w \in BOOLEAN : Call_Vector_at(n, index, w)
    \/ \E n \in 1..MaxMat, row \in 0..(MaxSize + 1), col \in 0..(MaxSize + 1), w \in BOOLEAN :
         Call_Matrix_at(n, row, col, w)

LinalgSpec == LinalgInit /\ [][LinalgNext]_vars

\* ------------------------------------------------------------ properties
\* every angle a body holds is a whole number of quarter turns
AnglesWhole == \A o \in Objects : \A c \in 1..3 : heap[o].ANGLE[c][2] = 1

Last(t) == t[Len(t)]
\* Cal_Constraints has run in the call or evaluation under way
Assembled == \E n \in 1..Len(trace) : trace[n] = "assemble"
\* solve() has returned to its caller
SolveReturned == call = "solve" /\ pc = "idle" /\ fault = "none"

\* C1: after Cal_Constraints on a system of nbody >= 1 bodies and njoint
\* joints, whatever the two counts, SYS_Cq has 6 + 3 * njoint rows and
\* 6 * nbody columns.
C1_JacobianShape ==
    (Assembled /\ nbody >= 1) =>
        /\ n_rows(SYS_Cq) = 6 + 3 * njoint
        /\ n_cols(SYS_Cq) = 6 * nbody

\* C2: after Cal_Constraints, SYS_M is square of side 6 * nbody, symmetric,
\* and zero outside the 6 x 6 diagonal blocks, one block per registered body.
C2_MassMatrix ==
    (Assembled /\ nbody >= 1) =>
        /\ n_rows(SYS_M) = 6 * nbody
        /\ \A i \in 1..(6 * nbody) : Len(SYS_M[i]) = 6 * nbody
        /\ \A i, j \in 1..(6 * nbody) :
             /\ SYS_M[i][j] = SYS_M[j][i]
             /\ ((i - 1) \div 6 # (j - 1) \div 6) => SYS_M[i][j] = R(0)

\* a system of two bodies assembled, the second with a mass other than one
C2_Witness == Assembled /\ nbody = 2 /\ n_rows(SYS_M) = 12 /\ SYS_M[7][7] = R(2)

\* C3: a solve() that returns has evaluated the derivative four times, on q,
\* q + dt/2 k1, q + dt/2 k2 and q + dt k3, q being the state at entry, and
\* has then replaced every block of q by q + dt/6 (k1 + 2 k2 + 2 k3 + k4).
Axpy(base, c, ks) == [i \in 1..Len(base) |-> VAdd(base[i], VScale(c, ks[i]))]
C3_RK4 ==
    SolveReturned =>
        /\ Len(evalIn) = 4
        /\ evalIn[1] = q_in
        /\ evalIn[2] = Axpy(q_in, RDiv(dt, R(2)), k[1])
        /\ evalIn[3] = Axpy(q_in, RDiv(dt, R(2)), k[2])
        /\ evalIn[4] = Axpy(q_in, dt, k[3])
        /\ Len(q) = Len(q_in)
        /\ \A i \in 1..Len(q) :
             q[i] = VAdd(q_in[i],
                         VScale(RDiv(dt, R(6)),
                                VAdd(VAdd(k[1][i], VScale(R(2), k[2][i])),
                                     VAdd(VScale(R(2), k[3][i]), k[4][i]))))

\* a step that moved the state, with slopes that differ between the stages
C3_Witness == SolveReturned /\ q # q_in /\ k[1] # k[2] /\ k[3] # k[4]

\* C4 as claimed: whenever the system is assembled, in init() as well as in
\* a derivative evaluation, the bodies were updated first and the joints next,
\* in the same call.
C4_AssemblyOrder ==
    Assembled =>
        /\ Len(trace) >= 3
        /\ trace[1] = "bodies" /\ trace[2] = "joints" /\ trace[3] = "assemble"

\* C4 amended: whenever a derivative evaluation of solve() assembles the
\* system, every registered body holds the blocks of the state evaluated,
\* every registered joint holds what update() computes from the bodies as
\* they are, the matrices are those of these bodies and joints, and the steps
\* were taken in that order.  (init() assembles without updating anything.)
C4_EvaluationOrder ==
    (call = "solve" /\ Assembled) =>
        /\ Len(trace) >= 3
        /\ trace[1] = "bodies" /\ trace[2] = "joints" /\ trace[3] = "assemble"
        /\ \A i \in 1..nbody :
             LET b == heap[Body_ptr_array[i]]
             IN b = update(b, q_temp[4 * i - 3], q_temp[4 * i - 2], q_temp[4 * i - 1],
                           q_temp[4 * i])
        /\ \A n \in 1..njoint : Joint_ptr_array[n] = Joint_update(Joint_ptr_array[n], heap)
        /\ LET r == Cal_Constraints(heap, Body_ptr_array, Joint_ptr_array, nbody, njoint, Sys)
           IN r.SYS_Cq = SYS_Cq /\ r.SYS_M = SYS_M /\ r.SYS_RHS = SYS_RHS /\ r.SYS_MAT = SYS_MAT

\* the second evaluation of a jointed system has assembled and solved
C4_Witness ==
    /\ call = "solve" /\ Assembled /\ stage = 2 /\ pc = "advance"
    /\ nbody = 2 /\ njoint = 1
    /\ Joint_ptr_array[1].CONSTRAINT # zeros(3)
    /\ heap[Body_ptr_array[2]].POSITION # built[Body_ptr_array[2]].POSITION

\* C5: a singular SYS_MAT ends the evaluation in an error; no vector comes
\* back from the solve as if it had succeeded.
C5_SingularReported ==
    (call = "solve" /\ trace # <<>> /\ Last(trace) = "linsolve" /\ IsSingular(SYS_MAT))
        => fault # "none"

\* C6: when a derivative evaluation of solve() fails, the failure leaves
\* solve() (no later stage is run) and q and q_d are what they were at entry.
EvaluationFailed ==
    /\ call = "solve" /\ fault \in {"logic_error", "runtime_error"}
    /\ trace # <<>> /\ Last(trace) \in {"assemble", "linsolve"}
C6_FailedStep ==
    EvaluationFailed =>
        /\ pc = "failed"
        /\ Len(evalIn) = stage
        /\ q = q_in /\ q_d = q_d_in

\* the third evaluation of an initialised system failed
C6_Witness == EvaluationFailed /\ stage = 3 /\ Len(q) = 8

\* C7: with a joint on a body that was never registered, or with a state
\* vector that does not hold four blocks per body, init() has reported a
\* fatal error: no solve() step is taken on such a system.
JointsWired ==
    \A n \in 1..Len(Joint_ptr_array) :
        Joint_ptr_array[n].body_i \in Registered /\ Joint_ptr_array[n].body_j \in Registered
C7_WiringDetected ==
    (call = "solve" /\ ninit > 0) => (JointsWired /\ Len(q) = 4 * nbody)

\* C8: the rotation matrix of every Mobilized body is the 3-2-1 matrix of its
\* orientation triple, in every state.
C8_TBI ==
    \A o \in Objects :
        heap[o].kind = "Mobilized" =>
            heap[o].TBI = build_psi_tht_phi_TM(heap[o].ANGLE[3], heap[o].ANGLE[2],
                                               heap[o].ANGLE[1])

\* a body whose orientation an update has changed
C8_Witness ==
    \E o \in Objects : heap[o].kind = "Mobilized" /\ heap[o].ANGLE # built[o].ANGLE

\* C9: the Ground body is, in every state, as it was constructed.
C9_GroundFixed == \A o \in Objects : heap[o].kind = "Ground" => heap[o] = built[o]

\* C10 as claimed: position, velocity, orientation and angular velocity of a
\* body change in no step but the update of the bodies.
Kinematics(b) == <<b.POSITION, b.VELOCITY, b.ANGLE, b.ANGLE_VEL>>
C10_OnlyUpdate ==
    [][\A o \in Objects :
         Kinematics(heap'[o]) # Kinematics(heap[o]) => (pc = "bodies" /\ o \in Registered)]_vars

\* C10 amended: velocity, orientation and angular velocity of a body change
\* only in its update(); its position changes only in its update() or in
\* Assembly(), which moves the body j of a registered joint.
C10_UpdateOrAssembly ==
    [][\A o \in Objects :
         /\ <<heap'[o].VELOCITY, heap'[o].ANGLE, heap'[o].ANGLE_VEL>>
              # <<heap[o].VELOCITY, heap[o].ANGLE, heap[o].ANGLE_VEL>>
            => (pc = "bodies" /\ o \in Registered)
         /\ heap'[o].POSITION # heap[o].POSITION
            => \/ pc = "bodies" /\ o \in Registered
               \/ /\ pc = "idle" /\ nassembly' = nassembly + 1
                  /\ \E n \in 1..njoint : Joint_ptr_array[n].body_j = o]_vars

\* Assembly() has moved a body and init() has run since
C10_Witness ==
    /\ call = "init" /\ nassembly = 1 /\ nsolve = 0
    /\ \E o \in Objects : heap[o].POSITION # built[o].POSITION

\* C11: the rows of the k-th joint in SYS_Cq hold the first half of the
\* joint's Cq in the columns of its body i and the second half in the columns
\* of its body j, wherever the two bodies are in the body list, and zeros in
\* every other column.
C11_BlockAtBodyColumns ==
    (Assembled /\ nbody >= 1) =>
        \A n \in 1..njoint :
            LET jt == Joint_ptr_array[n]
            IN (jt.body_i \in Registered /\ jt.body_j \in Registered) =>
                 LET a == IndexOf(jt.body_i)
                     b == IndexOf(jt.body_j)
                 IN \A r \in 1..3 :
                      LET row == SYS_Cq[6 + 3 * (n - 1) + r]
                      IN /\ Len(row) >= 6 * a + 6 /\ Len(row) >= 6 * b + 6
                         /\ \A c \in 1..Len(row) :
                              row[c] = IF c \in (6 * a + 1)..(6 * a + 6) THEN jt.Cq[r][c - 6 * a]
                                       ELSE IF c \in (6 * b + 1)..(6 * b + 6)
                                            THEN jt.Cq[r][c - 6 * b + 6]
                                            ELSE R(0)

\* Cal_Constraints ran through: its product at line 55 was well formed
AssembledThrough == Assembled /\ nbody >= 1 /\ n_cols(SYS_Cq) = 6 * nbody

\* C12: in SYS_RHS the six entries of the ground pin block, the first six of
\* the Gamma partition, are zero after Cal_Constraints, whatever the state of
\* the first body.
C12_PinBlockZero ==
    AssembledThrough => \A c \in 1..6 : SYS_RHS[6 * nbody + c] = R(0)

\* C13: after Cal_Constraints SYS_Cq has as many rows as SYS_GAMMA has
\* entries, 6 + 3 * njoint, and SYS_GAMMA is the lower partition of SYS_RHS.
C13_RowsMatchGamma ==
    (Assembled /\ nbody >= 1) =>
        /\ n_rows(SYS_Cq) = 6 + 3 * njoint
        /\ Len(SYS_GAMMA) = 6 + 3 * njoint
        /\ AssembledThrough =>
             /\ Len(SYS_RHS) = 6 * nbody + 6 + 3 * njoint
             /\ SubSeq(SYS_RHS, 6 * nbody + 1, Len(SYS_RHS)) = SYS_GAMMA

\* a jointed system assembled with a Gamma that is not zero
C13_Witness ==
    /\ AssembledThrough /\ nbody = 2 /\ njoint = 1
    /\ \E c \in 7..9 : SYS_GAMMA[c] # R(0)

\* a derivative evaluation has produced its output
Evaluated == call = "solve" /\ pc = "advance"

\* C14: in the output of a derivative evaluation, for every body i, block 4i
\* is the velocity block 4i+1 of the input, block 4i+1 is entries 6i..6i+2 and
\* block 4i+3 entries 6i+3..6i+5 of the solution of the augmented system; the
\* multipliers, the entries from 6 * nbody on, are in no block.
C14_OutputBlocks ==
    Evaluated =>
        /\ ~IsSingular(SYS_MAT) => MatVec(SYS_MAT, ANS) = SYS_RHS
        /\ \A i \in 0..(nbody - 1) :
             /\ k[stage][4 * i + 1] = q_temp[4 * i + 2]
             /\ k[stage][4 * i + 2] = <<ANS[6 * i + 1], ANS[6 * i + 2], ANS[6 * i + 3]>>
             /\ k[stage][4 * i + 4] = <<ANS[6 * i + 4], ANS[6 * i + 5], ANS[6 * i + 6]>>
        /\ \A n \in 1..Len(k[stage]) : n > 4 * nbody => k[stage][n] = <<>>

\* an evaluation of a jointed system with accelerations and multipliers that
\* are not zero
C14_Witness ==
    /\ Evaluated /\ nbody = 2 /\ njoint = 1 /\ ~IsSingular(SYS_MAT)
    /\ k[stage][6] # zeros(3) /\ k[stage][2] # k[stage][6]
    /\ \E c \in 13..21 : ANS[c] # R(0)

\* C15: in the output of a derivative evaluation the orientation-rate block
\* 4i+2 of every body is the angular-velocity block 4i+3 of the state that
\* was evaluated.
C15_OrientationRate ==
    Evaluated => \A i \in 0..(nbody - 1) : k[stage][4 * i + 3] = q_temp[4 * i + 4]

\* C16: the body list and the joint list only grow, by one entry at their end
\* in an Add, nbody and njoint are their lengths, and no step of Assembly,
\* init, solve or output_data removes, moves or replaces an entry.
JointIdentity(j) == <<j.type, j.Pi, j.Pj, j.Qi, j.Qj, j.body_i, j.body_j>>
IsCall == pc' # pc \/ ninit' # ninit \/ nassembly' # nassembly \/ nsolve' # nsolve
             \/ fout' # fout
C16_AppendOnly ==
    /\ nbody = Len(Body_ptr_array) /\ njoint = Len(Joint_ptr_array)
    /\ [][/\ nbody' = Len(Body_ptr_array') /\ njoint' = Len(Joint_ptr_array')
          /\ nbody' \in {nbody, nbody + 1} /\ njoint' \in {njoint, njoint + 1}
          /\ \A n \in 1..nbody : Body_ptr_array'[n] = Body_ptr_array[n]
          /\ \A n \in 1..njoint :
               JointIdentity(Joint_ptr_array'[n]) = JointIdentity(Joint_ptr_array[n])
          /\ (IsCall \/ pc # "idle") => (nbody' = nbody /\ njoint' = njoint)]_vars

\* two bodies and a joint registered, and a step taken and written since
C16_Witness ==
    /\ nbody = 2 /\ njoint = 1 /\ nassembly = 1 /\ Len(fout) = 1
    /\ Body_ptr_array = <<3, 1>>

\* two numbers that agree to six significant digits
Near6(f, x) ==
    LET diff == RSub(f, x)
    IN RLe(RMul(R(200000), <<Abs(diff[1]), diff[2]>>), <<Abs(x[1]), x[2]>>)

DerivativeOf(qIn) ==
    LET hp == [o \in DOMAIN heap |->
                 IF o \in Registered
                 THEN LET i == IndexOf(o)
                      IN update(heap[o], qIn[i * 4 + 1], qIn[i * 4 + 2], qIn[i * 4 + 3],
                                qIn[i * 4 + 4])
                 ELSE heap[o]]
        jpa == Vec([n \in 1..Len(Joint_ptr_array) |-> Joint_update(Joint_ptr_array[n], hp)])
        r == Cal_Constraints(hp, Body_ptr_array, jpa, nbody, njoint, Sys)
    IN IF r.fault # "none" THEN <<>>
       ELSE LET g == Gauss(r.SYS_MAT, r.SYS_RHS)
            IN IF g.regular THEN qdOut(EmptyBlocks(Len(qIn)), 0, qIn, g.x) ELSE <<>>

\* The step as a function of the state q0 at entry: <<>> where an evaluation
\* has no result
StepOf(q0) ==
    LET k1 == DerivativeOf(q0)
    IN IF k1 = <<>> THEN <<>> ELSE
    LET k2 == DerivativeOf(Axpy(q0, RDiv(dt, R(2)), k1))
    IN IF k2 = <<>> THEN <<>> ELSE
    LET k3 == DerivativeOf(Axpy(q0, RDiv(dt, R(2)), k2))
    IN IF k3 = <<>> THEN <<>> ELSE
    LET k4 == DerivativeOf(Axpy(q0, dt, k3))
    IN IF k4 = <<>> THEN <<>> ELSE
    [i \in 1..Len(q0) |->
        VAdd(q0[i], VScale(RDiv(dt, R(6)),
                           VAdd(VAdd(k1[i], VScale(R(2), k2[i])),
                                VAdd(VScale(R(2), k3[i]), k4[i]))))]

\* solve() has just returned
JustStepped == SolveReturned /\ trace # <<>> /\ Last(trace) = "commit" /\ fout = <<>>

C19_ConstantsKept ==
    /\ [](\A o \in Objects : /\ heap[o].M = built[o].M
                             /\ heap[o].FORCE = built[o].FORCE
                             /\ heap[o].TORQUE = built[o].TORQUE)
    /\ [][/\ dt' = dt
          /\ time' # time => (pc = "idle" /\ fout' # fout /\ time' = RAdd(time, dt))]_vars

\* a system assembled, stepped and written, with a body of mass 2 under load
C19_Witness ==
    /\ SolveReturned /\ nassembly = 1 /\ Len(fout) = 1 /\ q # q_in
    /\ \E i \in 1..nbody :
         LET b == heap[Body_ptr_array[i]]
         IN b.kind = "Mobilized" /\ b.M[1][1] = R(2) /\ b.FORCE # zeros(3) /\ b.TORQUE # zeros(3)

\* C20: sign(x) is -1 for every x below zero and +1 for every x that is zero
\* or above; for no finite x is it 0.
C20_Sign ==
    (arg.fn = "sign" /\ res # <<>>) =>
        LET x == arg.x
            below == (x.cls = "num" /\ ~RLe(R(0), x.val)) \/ (x.cls = "inf" /\ x.neg)
            above == \/ x.cls = "zero"
                     \/ (x.cls = "num" /\ RLe(R(0), x.val))
                     \/ (x.cls = "inf" /\ ~x.neg)
        IN /\ below => res = <<-1>>
           /\ above => res = <<1>>
           /\ x.cls \in {"num", "zero"} => res # <<0>>

\* sign called on the negative zero
C20_Witness == arg.fn = "sign" /\ arg.x.cls = "zero" /\ arg.x.neg /\ res = <<1>>

\* Matrix2Quaternion has returned: its argument and what it wrote
M2Q_Returned ==
    \/ arg.fn = "Matrix2Quaternion" /\ Len(res) = 1
    \/ arg.fn = "Quaternion2Matrix" /\ Len(res) = 2
M2Q_In == IF arg.fn = "Matrix2Quaternion" THEN arg.x ELSE res[1]
M2Q_Out == res[Len(res)]
Candidates(m) ==
    << fabs(RAdd(RAdd(R(1), m[1][1]), RAdd(m[2][2], m[3][3]))),
       fabs(RAdd(RAdd(R(1), m[1][1]), RNeg(RAdd(m[2][2], m[3][3])))),
       fabs(RAdd(RSub(R(1), m[1][1]), RSub(m[2][2], m[3][3]))),
       fabs(RAdd(RSub(R(1), m[1][1]), RSub(m[3][3], m[2][2]))) >>
\* o is half the square root of c, up to the cut of the root
HalfRoot(o, c) ==
    LET up == RAdd(o, Rat(1, SqrtScale))
    IN /\ o[1] >= 0
       /\ ~RLt(c, RMul(R(4), RMul(o, o)))
       /\ RLt(c, RMul(R(4), RMul(up, up)))

\* C21: Matrix2Quaternion takes the four candidates |1+m00+m11+m22|,
\* |1+m00-m11-m22|, |1-m00+m11-m22|, |1-m00-m11+m22|; j is the lowest index
\* of a largest one; component j of the output is half the square root of
\* candidate j, so not negative; every other component, times four times
\* component j, is a sum or a difference of two opposite off-diagonal
\* entries; and all four components are written.
C21_Matrix2Quaternion ==
    M2Q_Returned =>
        LET m == M2Q_In
            out == M2Q_Out
            c == Candidates(m)
            j == CHOOSE n \in 1..4 : /\ \A i \in 1..4 : ~RLt(c[n], c[i])
                                     /\ \A i \in 1..(n - 1) : RLt(c[i], c[n])
        IN /\ \A i \in 1..4 : out[i] # Unset
           /\ HalfRoot(out[j], c[j])
           /\ \A i \in (1..4) \ {j} :
                \E a \in 1..3, b \in 1..3 :
                    /\ a < b
                    /\ RMul(R(4), RMul(out[i], out[j]))
                         \in { RAdd(m[a][b], m[b][a]), RSub(m[a][b], m[b][a]),
                               RSub(m[b][a], m[a][b]) }

\* a matrix whose four candidates are all 2: the first is taken, its root is
\* not rational, and another component is not zero
C21_Witness ==
    /\ arg.fn = "Matrix2Quaternion" /\ Len(res) = 1
    /\ Candidates(arg.x) = <<R(2), R(2), R(2), R(2)>>
    /\ res[1][1] = Rat(707, 1000) /\ res[1][2] # R(0)

\* C22: for a unit quaternion q, Matrix2Quaternion(Quaternion2Matrix(q)) is q
\* or -q, component by component.
C22_RoundTrip ==
    (arg.fn = "Quaternion2Matrix" /\ Len(res) = 2) =>
        \/ res[2] = arg.x
        \/ res[2] = VScale(R(-1), arg.x)

\* a round trip of a quaternion with four components that are not zero and
\* a negative scalar part, which comes back negated
C22_Witness ==
    /\ arg.fn = "Quaternion2Matrix" /\ Len(res) = 2
    /\ \A i \in 1..4 : arg.x[i] # R(0)
    /\ arg.x[1][1] < 0 /\ res[2] # arg.x

\* v x w
Cross(v, w) ==
    << RSub(RMul(v[2], w[3]), RMul(v[3], w[2])),
       RSub(RMul(v[3], w[1]), RMul(v[1], w[3])),
       RSub(RMul(v[1], w[2]), RMul(v[2], w[1])) >>

\* C23: skew_sym(v) has a zero diagonal, its transpose is its negative, and
\* skew_sym(v) * w is the cross product v x w, for all v and w.
C23_SkewSym ==
    (arg.fn = "skew_sym" /\ res # <<>>) =>
        LET S == res[1]
            v == arg.x[1]
            w == arg.x[2]
        IN /\ \A i \in 1..3 : S[i][i] = R(0)
           /\ trans(S) = MatNeg(S)
           /\ MatVec(S, w) = Cross(v, w)

\* two vectors whose cross product has no zero component
C23_Witness ==
    /\ arg.fn = "skew_sym" /\ res # <<>>
    /\ \A i \in 1..3 : Cross(arg.x[1], arg.x[2])[i] # R(0)

\* the vector a copy or a move was made from, as it was before, and the
\* vector it was made into
IsCopy == ret.op = "copy"
IsMove == ret.op = "move"
Source0 == ret.old.vecs[ret.b[1]]
Source == vecs[ret.b[1]]
Destination == vecs[ret.a]
\* the element at an index of the Armadillo vector behind v (getArmaVector),
\* or Unset when v has none or it has no such element
Element(v, index, st) ==
    IF v.data_ = 0 \/ index >= Len(st[v.data_]) THEN Unset ELSE st[v.data_][index + 1]

\* C24: after a copy construction or a copy assignment the copy has the size
\* of the original and, at every index, the element of the original, and the
\* original is as it was.
C24_CopyEqual ==
    IsCopy =>
        /\ Destination.size_ = Source0.size_
        /\ \A index \in 0..(Source0.size_ - 1) :
             Element(Source0, index, ret.old.arma) # Unset =>
                 Element(Destination, index, arma) = Element(Source0, index, ret.old.arma)
        /\ Source = Source0 /\ arma = ret.old.arma

\* C25 as it is worded, for every move: the destination has the size and the
\* data of the source, the source is left with size 0 and no data, and the
\* data is held by exactly one vector.
C25_Move ==
    IsMove =>
        /\ Destination.size_ = Source0.size_
        /\ Destination.data_ = Source0.data_ /\ arma = ret.old.arma
        /\ Source.size_ = 0 /\ Source.data_ = 0
        /\ Source0.data_ # 0 =>
             Cardinality({n \in 1..MaxVec : vecs[n].live /\ vecs[n].data_ = Source0.data_}) = 1

\* C25 amended: the same for a move from another vector; a vector move
\* assigned to itself is left as it was.
C25_MoveFromAnother ==
    IsMove =>
        IF ret.a = ret.b[1]
        THEN vecs = ret.old.vecs /\ arma = ret.old.arma
        ELSE /\ Destination.size_ = Source0.size_
             /\ Destination.data_ = Source0.data_ /\ arma = ret.old.arma
             /\ \A index \in 0..(Source0.size_ - 1) :
                  Element(Destination, index, arma) = Element(Source0, index, ret.old.arma)
             /\ Source.size_ = 0 /\ Source.data_ = 0
             /\ Source0.data_ # 0 =>
                  Cardinality({n \in 1..MaxVec :
                                 vecs[n].live /\ vecs[n].data_ = Source0.data_}) = 1

\* a vector of two elements move assigned to a vector that held one
C25_Witness ==
    /\ IsMove /\ ret.a # ret.b[1]
    /\ ret.old.vecs[ret.a].live /\ ret.old.vecs[ret.a].size_ = 1
    /\ Source0.size_ = 2 /\ Element(Destination, 1, arma) = R(2)
    /\ Source.data_ = 0

\* C26: Vector::at(i) throws LinearAlgebraException exactly when
\* i >= size(), Matrix::at(r, c) exactly when r >= rows() or c >= cols(); a
\* call that throws changes nothing; a call that does not throw reads, and
\* writes, the element the unchecked operator gives for the same index.
C26_CheckedAccess ==
    /\ ret.op = "Vector::at" =>
         LET v == ret.old.vecs[ret.a]
             index == ret.b[1]
             unchecked == Vector_index(v, index, ret.old.arma)
         IN /\ ret.out = "LinearAlgebraException" <=> index >= v.size_
            /\ ret.out = "LinearAlgebraException" =>
                 vecs = ret.old.vecs /\ mats = ret.old.mats /\ arma = ret.old.arma
            /\ ret.out # "LinearAlgebraException" =>
                 /\ ret.out = unchecked.out /\ ret.ptr = unchecked.ptr
                 /\ arma = IF ret.w /\ unchecked.out = "element"
                           THEN [ret.old.arma EXCEPT ![v.data_][index + 1] = Written]
                           ELSE ret.old.arma
    /\ ret.op = "Matrix::at" =>
         LET m == ret.old.mats[ret.a]
             row == ret.b[1]
             col == ret.b[2]
             unchecked == Matrix_index(m, row, col, ret.old.arma)
         IN /\ ret.out = "LinearAlgebraException" <=> (row >= m.rows_ \/ col >= m.cols_)
            /\ ret.out = "LinearAlgebraException" =>
                 vecs = ret.old.vecs /\ mats = ret.old.mats /\ arma = ret.old.arma
            /\ ret.out # "LinearAlgebraException" =>
                 /\ ret.out = unchecked.out /\ ret.ptr = unchecked.ptr
                 /\ arma = IF ret.w /\ unchecked.out = "element"
                           THEN [ret.old.arma EXCEPT ![m.data_][row + 1][col + 1] = Written]
                           ELSE ret.old.arma

\* at(size()) on a vector of two elements, which throws, after at(1) wrote
\* its last element
C26_Witness ==
    /\ ret.op = "Vector::at" /\ ret.out = "LinearAlgebraException"
    /\ vecs[ret.a].size_ = 2 /\ ret.b[1] = 2
    /\ Element(vecs[ret.a], 1, arma) = Written

\* C27: after Cal_Constraints, for every nbody >= 1 and njoint >= 0, SYS_MAT
\* is square of side 6 * nbody + 6 + 3 * njoint and SYS_RHS has that length.
C27_SquareSystem ==
    (Assembled /\ nbody >= 1) =>
        LET side == 6 * nbody + 6 + 3 * njoint
        IN /\ n_rows(SYS_MAT) = side
           /\ \A i \in 1..n_rows(SYS_MAT) : Len(SYS_MAT[i]) = side
           /\ Len(SYS_RHS) = side

\* a derivative evaluation is running
Evaluating == call = "solve" /\ pc \in {"bodies", "joints", "assemble", "linsolve"}

\* C28: whenever a derivative evaluation runs on a system that was
\* initialised, q holds four blocks for every registered body, whatever calls
\* of Add, init and solve came before.
C28_FourBlocksPerBody == (Evaluating /\ ninit >= 1) => Len(q) = 4 * nbody

\* C29: when solve() returns, every registered Mobilized body holds, as its
\* position, velocity, orientation and angular velocity, its four blocks of
\* the state q just committed.
C29_BodiesHoldCommitted ==
    JustStepped =>
        \A i \in 1..nbody :
            LET b == heap[Body_ptr_array[i]]
            IN b.kind = "Mobilized" =>
                 /\ b.POSITION = q[4 * i - 3]
                 /\ b.VELOCITY = q[4 * i - 2]
                 /\ b.ANGLE = q[4 * i - 1]
                 /\ b.ANGLE_VEL = q[4 * i]

\* how often a step occurs in a trace
Occurrences(t, step) == Cardinality({n \in 1..Len(t) : t[n] = step})
EachOnce(t) ==
    \A step \in {"bodies", "joints", "assemble", "linsolve"} : Occurrences(t, step) = 1

\* C30: a solve() that returns has gone through four stages, one after the
\* other; in each the bodies were updated once, the joints once, the system
\* assembled once and solved once; and q was written once, at the commit
\* after the fourth stage.
C30_FourStages ==
    /\ [](Evaluated => /\ stage \in 1..4 /\ Len(evalIn) = stage
                       /\ Len(trace) = 4 /\ EachOnce(trace))
    /\ [](JustStepped => /\ stage = 4 /\ Len(evalIn) = 4
                         /\ Len(trace) = 5 /\ EachOnce(trace)
                         /\ Occurrences(trace, "commit") = 1)
    /\ [][(call = "solve" /\ call' = "solve" /\ pc # "idle") =>
            /\ stage' # stage => (stage' = stage + 1 /\ Evaluated)
            /\ q' # q => (Evaluated /\ stage = 4 /\ trace' = Append(trace, "commit"))]_vars

\* a step of a jointed system that changed q
C30_Witness == JustStepped /\ nbody = 2 /\ njoint = 1 /\ q # q_in /\ stage = 4

====
